---- MODULE Spec2Model ----
(***************************************************************************)
(* A model of src/matrices/eigensolver.c: the preconditioned conjugate-    *)
(* gradient block eigensolver (eigensolver) and its line minimizer         *)
(* (linmin).                                                               *)
(*                                                                         *)
(* Spec        the driver, one action per statement group of eigensolver;  *)
(*             block vectors carry symbolic contents, one tag per scalar,  *)
(*             so that aliasing, scratch use and staleness are visible.    *)
(*                                                                         *)
(* SpecIter    the iteration loop and the conjugate-gradient direction      *)
(*             update, with the iteration counter running past two resets. *)
(*                                                                         *)
(* SpecLinmin  linmin, called as the driver calls it (xmin = 0, xmax = -pi  *)
(*             or pi), on a grid of Scale points per unit; the function    *)
(*             minimized is arbitrary: each new point it is evaluated at   *)
(*             gets any value and derivative, and keeps them.              *)
(* SpecLinminFair  the same, with the steps of the (sequential) code       *)
(*             always taken when there is one to take.                     *)
(*                                                                         *)
(* SpecTheta   the line minimization step of the loop: the strategy, the   *)
(*             derivatives, theta and prev_theta as exact quotients.       *)
(*                                                                         *)
(* Numbers are exact: traces are small integers, the tolerance is the      *)
(* rational TolNum/TolDen, improvements are counted in hundredths.         *)
(***************************************************************************)
EXTENDS Integers, Sequences, FiniteSets, TLC

\* ------------------------------------------------------------------ bounds

\* largest number of workspaces tried (nWork is drawn from 1..MaxWork)
MaxWork == 4
\* scalars per block (n*p)
NP == 2
\* the driver is explored for this many iterations
MaxIter == 2
\* the caller's tolerance is TolNum/TolDen
TolNum == 1
TolDen == 2

\* SpecIter runs the loop for this many iterations
CGIters == 141

\* linmin works on a grid of Scale points per unit of x
Scale == 2

\* ------------------------------------------------------- program constants

\* #define K_PI 3.14159..., in grid points: 3 units of Scale points each
K_PI == 3 * Scale

\* #define CG_RESET_ITERS 70
CG_RESET_ITERS == 70

\* #define EIGENSOLVER_MAX_ITERATIONS 10000
EIGENSOLVER_MAX_ITERATIONS == 10000
\* #define APPROX_LINMIN_IMPROVEMENT_THRESHOLD 0.05, in hundredths
APPROX_LINMIN_IMPROVEMENT_THRESHOLD == 5
\* #define APPROX_LINMIN_SLOWDOWN_GUESS 2.0
APPROX_LINMIN_SLOWDOWN_GUESS == 2
\* the 1e-7 of the convergence test is 1/EpsDen
EpsDen == 10000000

Abs(x) == IF x < 0 THEN -x ELSE x

\* the option bits of flags that change control flow (EIGS_VERBOSE only prints)
FlagNames == {"PROJECT_PRECONDITIONING", "FORCE_EXACT_LINMIN", "FORCE_APPROX_LINMIN"}

\* traces the operator can produce
EVals == {-1, 1}
\* derivative values seen by the approximate strategy
DEVals == {-1, 1}
D2EVals == {-1, 1}
\* elapsed times a TIME_OP can measure
TimeVals == {0, 1}
\* improvements linmin can report, in hundredths
ImprVals == {0, 5, 6}

\* values of tr(Gt X) and of the Polak-Ribiere numerator
TgxVals == {0, 1, 2}

\* values and derivatives of the function linmin minimizes
FVals == {1, 2}
DFVals == {-2, -1, 0, 1, 2}
\* tolerances linmin is called with, in grid points (tolerance = t/Scale)
TolUnits == {0, 1, 2}

VARIABLES
    nWork, flags, hasK, hasConstraint,      \* the call's arguments
    pc, iteration, use_linmin,
    E, prev_E,
    linmin_improvement, time_linmin, time_KZ,
    inited,                                 \* which of those three were ever assigned
    Work,                                   \* Work[s][i]: content of scalar i of workspace s
    i,                                      \* index of the fused Polak-Ribiere loop
    Y, Uof,                                 \* the value of Y; the value of Y that U inverts
    pendingY,                               \* updates of Y since the last constraint call
    constraintCalls,
    rejected,                               \* the approximate step was rejected in this iteration
    ctl,                                    \* what the strategy controller last read and chose
    cg,                                     \* the conjugate-gradient state (SpecIter)
    lm,                                     \* the locals of linmin (SpecLinmin)
    th                                      \* theta, prev_theta and the derivatives (SpecTheta)

vars == <<nWork, flags, hasK, hasConstraint, pc, iteration, use_linmin, E, prev_E,
          linmin_improvement, time_linmin, time_KZ, inited, Work, i, Y, Uof,
          pendingY, constraintCalls, rejected, ctl, cg, lm, th>>

args == <<nWork, flags, hasK, hasConstraint>>

\* -------------------------------------------------------- workspace roles

Block(tag) == [k \in 1..NP |-> tag]

\* G = Work[0]; X = Work[1]
Gs == 0
Xs == 1
\* D = Work[2] when usingConjugateGradient, else D = X
Ds == IF nWork >= 3 THEN 2 ELSE Xs
\* prev_G = Work[3] when use_polak_ribiere, else prev_G = G
PGs == IF nWork >= 4 THEN 3 ELSE Gs

usingConjugateGradient == nWork >= 3
use_polak_ribiere == nWork >= 4

\* What a block's contents are worth once the iteration that wrote them is over.
Age(tag) ==
    CASE tag = "grad" -> "oldgrad"
      [] tag = "D" -> "oldD"
      [] tag \in {"zero", "oldgrad", "oldD", "garbage"} -> tag
      [] OTHER -> "stale"

\* A(in, out, data, is_current, scratch): out := A in; the operator may or may
\* not write its scratch block (clob).  inSlot is -1 when the input is Y.
ApplyA(W, inSlot, outSlot, scratchSlot, result, clob) ==
    LET W1 == IF clob THEN [W EXCEPT ![scratchSlot] = Block("scratch")] ELSE W
        res == IF inSlot >= 0 /\ \E k \in 1..NP : W1[inSlot][k] # W[inSlot][k]
               THEN "A_of_scratch" ELSE result
    IN  [W1 EXCEPT ![outSlot] = Block(res)]

\* ------------------------------------------------------------ the driver

\* the parts of the state a specification does not use
NoCg == [pc |-> "unused"]
NoLm == [pc |-> "unused"]
NoTh == [pc |-> "unused"]

NoCtl == [done |-> FALSE, imp |-> 0, times |-> <<0, 0, 0, 0, 0, 0>>, measured |-> TRUE]

Init ==
    /\ nWork \in 1..MaxWork
    /\ flags \in SUBSET FlagNames
    /\ hasK \in BOOLEAN
    /\ hasConstraint \in BOOLEAN
    /\ pc = "setup"
    /\ iteration = 0
    /\ use_linmin = 1
    /\ E = 0
    /\ prev_E = 0
    /\ linmin_improvement = 0 /\ time_linmin = 0 /\ time_KZ = 0
    /\ inited = {}
    /\ Work = [s \in 0..(nWork - 1) |-> Block("garbage")]
    /\ i = 0
    /\ Y = "Y0"
    /\ Uof = "none"
    /\ pendingY = {}
    /\ constraintCalls = 0
    /\ rejected = FALSE
    /\ ctl = NoCtl
    /\ cg = NoCg
    /\ lm = NoLm
    /\ th = NoTh

\* lines 322-365: CHECK(nWork >= 2); roles; D and prev_G zeroed when they have
\* storage of their own.
Setup ==
    /\ pc = "setup"
    /\ IF nWork >= 2
       THEN /\ Work' = [s \in 0..(nWork - 1) |->
                          IF (usingConjugateGradient /\ s = 2) \/ (use_polak_ribiere /\ s = 3)
                          THEN Block("zero") ELSE Work[s]]
            /\ pc' = "constraint0"
       ELSE /\ pc' = "fatal"
            /\ UNCHANGED Work
    /\ UNCHANGED <<args, cg, lm, th, iteration, use_linmin, E, prev_E, linmin_improvement,
                   time_linmin, time_KZ, inited, i, Y, Uof, pendingY,
                   constraintCalls, rejected, ctl>>

\* constraint(Y, constraint_data), when a constraint is installed
CallConstraint ==
    IF hasConstraint
    THEN /\ pendingY' = {}
         /\ constraintCalls' = constraintCalls + 1
    ELSE UNCHANGED <<pendingY, constraintCalls>>

\* lines 367-368
InitialConstraint ==
    /\ pc = "constraint0"
    /\ CallConstraint
    /\ pc' = "loop"
    /\ UNCHANGED <<args, cg, lm, th, iteration, use_linmin, E, prev_E, linmin_improvement,
                   time_linmin, time_KZ, inited, Work, i, Y, Uof, rejected, ctl>>

\* ForceApprox with the override giving way to FORCE_EXACT_LINMIN
ForceApproxUnlessExact ==
    /\ pc = "loop"
    /\ use_linmin' = IF "FORCE_APPROX_LINMIN" \in flags /\ "FORCE_EXACT_LINMIN" \notin flags
                     THEN 0 ELSE use_linmin
    /\ pc' = "normalize"
    /\ UNCHANGED <<args, cg, lm, th, iteration, E, prev_E, linmin_improvement, time_linmin,
                   time_KZ, inited, Work, i, Y, Uof, pendingY, constraintCalls,
                   rejected, ctl>>

\* lines 373-374: if (flags & EIGS_FORCE_APPROX_LINMIN) use_linmin = 0;
ForceApprox ==
    /\ pc = "loop"
    /\ use_linmin' = IF "FORCE_APPROX_LINMIN" \in flags THEN 0 ELSE use_linmin
    /\ pc' = "normalize"
    /\ UNCHANGED <<args, cg, lm, th, iteration, E, prev_E, linmin_improvement, time_linmin,
                   time_KZ, inited, Work, i, Y, Uof, pendingY, constraintCalls,
                   rejected, ctl>>

\* lines 376-384: YtY = Yt Y; Y and YtY rescaled by y_norm; U = 1/YtY
Normalize ==
    /\ pc = "normalize"
    /\ Y' = "base"
    /\ pendingY' = pendingY \cup {"rescale"}
    /\ Uof' = "base"
    /\ pc' = "operator"
    /\ UNCHANGED <<args, cg, lm, th, iteration, use_linmin, E, prev_E, linmin_improvement,
                   time_linmin, time_KZ, inited, Work, i, constraintCalls,
                   rejected, ctl>>

\* line 386: A(Y, X, Adata, 1, G): X = AY; G is scratch
OperatorA ==
    /\ pc = "operator"
    /\ \E clob \in BOOLEAN : Work' = ApplyA(Work, -1, Xs, Gs, "AY", clob)
    /\ pc' = "trace"
    /\ UNCHANGED <<args, cg, lm, th, iteration, use_linmin, E, prev_E, linmin_improvement,
                   time_linmin, time_KZ, inited, i, Y, Uof, pendingY,
                   constraintCalls, rejected, ctl>>

\* lines 389-393: G = AYU; YtAYU = Yt G; E = tr(YtAYU); CHECK(!BADNUM(E))
TraceE ==
    /\ pc = "trace"
    /\ Work' = [Work EXCEPT ![Gs] = Block("AYU")]
    /\ \E bad \in BOOLEAN :
         IF bad THEN pc' = "fatal" /\ UNCHANGED E
         ELSE pc' = "converge" /\ E' \in EVals
    /\ UNCHANGED <<args, cg, lm, th, iteration, use_linmin, prev_E, linmin_improvement,
                   time_linmin, time_KZ, inited, i, Y, Uof, pendingY,
                   constraintCalls, rejected, ctl>>

\* lines 395-396: iteration > 0 &&
\*     fabs(E - prev_E) < tolerance * 0.5 * (E + prev_E + 1e-7),
\* both sides multiplied by 2*TolDen*EpsDen
Converged(it, e, pe) ==
    /\ it > 0
    /\ 2 * TolDen * EpsDen * Abs(e - pe) < TolNum * ((e + pe) * EpsDen + 1)

\* lines 395-397: break on convergence
ConvergenceTest ==
    /\ pc = "converge"
    /\ pc' = IF Converged(iteration, E, prev_E) THEN "finish" ELSE "gradient"
    /\ UNCHANGED <<args, cg, lm, th, iteration, use_linmin, E, prev_E, linmin_improvement,
                   time_linmin, time_KZ, inited, Work, i, Y, Uof, pendingY,
                   constraintCalls, rejected, ctl>>

\* lines 410-411: S1 = U YtAYU; G -= Y S1
Gradient ==
    /\ pc = "gradient"
    /\ Work' = [Work EXCEPT ![Gs] = Block("grad")]
    /\ pc' = "precondition"
    /\ UNCHANGED <<args, cg, lm, th, iteration, use_linmin, E, prev_E, linmin_improvement,
                   time_linmin, time_KZ, inited, i, Y, Uof, pendingY,
                   constraintCalls, rejected, ctl>>

\* lines 414-427: X = K(G) (timed) or X = G; the optional projection of X
Precondition ==
    /\ pc = "precondition"
    /\ Work' = [Work EXCEPT ![Xs] = Block("X")]
    /\ IF hasK
       THEN /\ time_KZ' \in TimeVals
            /\ inited' = inited \cup {"time_KZ"}
       ELSE UNCHANGED <<time_KZ, inited>>
    /\ pc' = "direction"
    /\ UNCHANGED <<args, cg, lm, th, iteration, use_linmin, E, prev_E, linmin_improvement,
                   time_linmin, i, Y, Uof, pendingY, constraintCalls, rejected, ctl>>

\* lines 433-437: traceGtX = tr(Gt X); Polak-Ribiere needs the fused pass first
Direction ==
    /\ pc = "direction"
    /\ IF usingConjugateGradient /\ use_polak_ribiere
       THEN pc' = "pr" /\ i' = 1
       ELSE pc' = "combine" /\ UNCHANGED i
    /\ UNCHANGED <<args, cg, lm, th, iteration, use_linmin, E, prev_E, linmin_improvement,
                   time_linmin, time_KZ, inited, Work, Y, Uof, pendingY,
                   constraintCalls, rejected, ctl>>

\* ACCUMULATE_DIFF(G.data[i], prev_G.data[i]) on symbolic contents
Diff(g, pg) ==
    IF g = "grad" /\ pg \in {"zero", "oldgrad"} THEN "graddiff" ELSE "mixed"

\* PRElement with prev_G assigned from G after the subtraction
PRElementKeepsDiff(W, k) ==
    [W EXCEPT ![Gs][k] = Diff(W[Gs][k], W[PGs][k]),
              ![PGs][k] = Diff(W[Gs][k], W[PGs][k])]

\* lines 442-444, one pass of the loop body:
\*   scalar g = G.data[i]; G.data[i] -= prev_G.data[i]; prev_G.data[i] = g;
PRElement(W, k) ==
    [W EXCEPT ![Gs][k] = Diff(W[Gs][k], W[PGs][k]), ![PGs][k] = W[Gs][k]]

\* lines 441-445: for (i = 0; i < Y.n * Y.p; ++i) { ... }
PRStep ==
    /\ pc = "pr"
    /\ i <= NP
    /\ Work' = PRElement(Work, i)
    /\ i' = i + 1
    /\ pc' = IF i + 1 <= NP THEN "pr" ELSE "combine"
    /\ UNCHANGED <<args, cg, lm, th, iteration, use_linmin, E, prev_E, linmin_improvement,
                   time_linmin, time_KZ, inited, Y, Uof, pendingY,
                   constraintCalls, rejected, ctl>>

\* the contents that stand for the search direction: D, or X when D is X
DTag == IF usingConjugateGradient THEN "D" ELSE "X"

\* lines 446-466: gamma; D = gamma D + X (only with conjugate gradient)
Combine ==
    /\ pc = "combine"
    /\ Work' = IF usingConjugateGradient THEN [Work EXCEPT ![Ds] = Block("D")] ELSE Work
    /\ pc' = "select"
    /\ UNCHANGED <<args, cg, lm, th, iteration, use_linmin, E, prev_E, linmin_improvement,
                   time_linmin, time_KZ, inited, i, Y, Uof, pendingY,
                   constraintCalls, rejected, ctl>>

\* line 470: if (!use_linmin)
Select ==
    /\ pc = "select"
    /\ pc' = IF use_linmin = 0 THEN "approx_probe" ELSE "exact_A"
    /\ UNCHANGED <<args, cg, lm, th, iteration, use_linmin, E, prev_E, linmin_improvement,
                   time_linmin, time_KZ, inited, Work, i, Y, Uof, pendingY,
                   constraintCalls, rejected, ctl>>

\* Y after Y += c D: the intended point, unless D no longer holds the direction
Moved(W, to) == IF \A k \in 1..NP : W[Ds][k] = DTag THEN to ELSE "corrupt"

\* lines 481-489: d_norm, dE = 2 tr(prev_Gt D)/d_norm, Y += (t/d_norm) D
ApproxProbe ==
    /\ pc = "approx_probe"
    /\ Y' = Moved(Work, "probe")
    /\ pendingY' = pendingY \cup {"probe"}
    /\ pc' = "approx_invert"
    /\ UNCHANGED <<args, cg, lm, th, iteration, use_linmin, E, prev_E, linmin_improvement,
                   time_linmin, time_KZ, inited, Work, i, Uof, constraintCalls,
                   rejected, ctl>>

\* lines 491-492: U = 1/(Yt Y)
ApproxInvert ==
    /\ pc = "approx_invert"
    /\ Uof' = Y
    /\ pc' = "approx_A"
    /\ UNCHANGED <<args, cg, lm, th, iteration, use_linmin, E, prev_E, linmin_improvement,
                   time_linmin, time_KZ, inited, Work, i, Y, pendingY,
                   constraintCalls, rejected, ctl>>

\* line 493: A(Y, G, Adata, 1, X): G = AY; X is scratch
ApproxA ==
    /\ pc = "approx_A"
    /\ \E clob \in BOOLEAN : Work' = ApplyA(Work, -1, Gs, Xs, "AYprobe", clob)
    /\ pc' = "approx_decide"
    /\ UNCHANGED <<args, cg, lm, th, iteration, use_linmin, E, prev_E, linmin_improvement,
                   time_linmin, time_KZ, inited, i, Y, Uof, pendingY,
                   constraintCalls, rejected, ctl>>

\* line 511: d2E < 0 || -0.5*dE*theta > 20.0 * fabs(E-prev_E), theta = -dE/d2E;
\* for d2E > 0 the second test is dE^2 > 40 |E - prev_E| d2E, and for d2E = 0
\* theta is infinite (of the sign that makes the product positive)
Reject(dE, d2E, e, pe) ==
    \/ d2E < 0
    \/ d2E = 0 /\ dE # 0
    \/ d2E > 0 /\ dE * dE > 40 * Abs(e - pe) * d2E

\* lines 494-524: E2, d2E, theta; the step is rejected (Y shifted back,
\* use_linmin = 1) or taken (Y shifted on to theta)
ApproxDecide ==
    /\ pc = "approx_decide"
    /\ \E dE \in DEVals, d2E \in D2EVals :
         IF Reject(dE, d2E, E, prev_E)
         THEN /\ use_linmin' = 1
              /\ rejected' = TRUE
              /\ Y' = IF Y = "probe" THEN Moved(Work, "base") ELSE "corrupt"
              /\ pendingY' = pendingY \cup {"undo"}
              /\ pc' = "exact_A"
         ELSE /\ Y' = IF Y = "probe" THEN Moved(Work, "final") ELSE "corrupt"
              /\ pendingY' = pendingY \cup {"shift"}
              /\ pc' = "constraint"
              /\ UNCHANGED <<use_linmin, rejected>>
    /\ UNCHANGED <<args, cg, lm, th, iteration, E, prev_E, linmin_improvement, time_linmin,
                   time_KZ, inited, Work, i, Uof, constraintCalls, ctl>>

\* line 528: A(D, G, Adata, 0, X): G = A D; X is scratch
ExactA ==
    /\ pc = "exact_A"
    /\ \E clob \in BOOLEAN : Work' = ApplyA(Work, Ds, Gs, Xs, "AD", clob)
    /\ pc' = "exact_derivs"
    /\ UNCHANGED <<args, cg, lm, th, iteration, use_linmin, E, prev_E, linmin_improvement,
                   time_linmin, time_KZ, inited, i, Y, Uof, pendingY,
                   constraintCalls, rejected, ctl>>

\* lines 529-575: DtD, d_norm, DtAD, symYtD, symYtAD, dE and d2E from U and
\* YtAYU, the safeguarded theta, S1 = YtAY
ExactDerivs ==
    /\ pc = "exact_derivs"
    /\ pc' = "linmin"
    /\ UNCHANGED <<args, cg, lm, th, iteration, use_linmin, E, prev_E, linmin_improvement,
                   time_linmin, time_KZ, inited, Work, i, Y, Uof, pendingY,
                   constraintCalls, rejected, ctl>>

\* lines 577-580: TIME_OP(time_linmin, theta = linmin(&linmin_improvement, ...));
\* linmin returns, or stops at one of its CHECKs
CallLinmin ==
    /\ pc = "linmin"
    /\ \E ok \in BOOLEAN :
         IF ok
         THEN /\ linmin_improvement' \in ImprVals
              /\ time_linmin' \in TimeVals
              /\ inited' = inited \cup {"linmin_improvement", "time_linmin"}
              /\ pc' = "rotate"
         ELSE /\ pc' = "fatal"
              /\ UNCHANGED <<linmin_improvement, time_linmin, inited>>
    /\ UNCHANGED <<args, cg, lm, th, iteration, use_linmin, E, prev_E, time_KZ, Work, i, Y,
                   Uof, pendingY, constraintCalls, rejected, ctl>>

\* line 583: Y = cos(theta) Y + (sin(theta)/d_norm) D
Rotate ==
    /\ pc = "rotate"
    /\ Y' = IF Y = "base" THEN Moved(Work, "final") ELSE "corrupt"
    /\ pendingY' = pendingY \cup {"rotate"}
    /\ pc' = "constraint"
    /\ UNCHANGED <<args, cg, lm, th, iteration, use_linmin, E, prev_E, linmin_improvement,
                   time_linmin, time_KZ, inited, Work, i, Uof, constraintCalls,
                   rejected, ctl>>

\* Constraint with the call made only after the exact line minimization
ConstraintOnlyAfterLinmin ==
    /\ pc = "constraint"
    /\ IF use_linmin = 1 THEN CallConstraint ELSE UNCHANGED <<pendingY, constraintCalls>>
    /\ pc' = "controller"
    /\ UNCHANGED <<args, cg, lm, th, iteration, use_linmin, E, prev_E, linmin_improvement,
                   time_linmin, time_KZ, inited, Work, i, Y, Uof, rejected, ctl>>

\* lines 586-587
Constraint ==
    /\ pc = "constraint"
    /\ CallConstraint
    /\ pc' = "controller"
    /\ UNCHANGED <<args, cg, lm, th, iteration, use_linmin, E, prev_E, linmin_improvement,
                   time_linmin, time_KZ, inited, Work, i, Y, Uof, rejected, ctl>>

\* lines 69-70
EXACT_LINMIN_TIME(t_AZ, t_KZ, t_ZtW, t_ZS, t_ZtZ, t_linmin) ==
    t_AZ * 2 + t_KZ + t_ZtW * 4 + t_ZS * 2 + t_ZtZ * 2 + t_linmin

\* lines 72-73
APPROX_LINMIN_TIME(t_AZ, t_KZ, t_ZtW, t_ZS, t_ZtZ) ==
    t_AZ * 2 + t_KZ + t_ZtW * 2 + t_ZS * 2 + t_ZtZ * 2

\* lines 597-604
T_exact(fl, t) ==
    EXACT_LINMIN_TIME(t[1], t[2], t[3], t[4], t[5], t[6])
      + (IF "PROJECT_PRECONDITIONING" \in fl THEN t[3] + t[4] ELSE 0)

T_approx(fl, t) ==
    APPROX_LINMIN_TIME(t[1], t[2], t[3], t[4], t[5])
      + (IF "PROJECT_PRECONDITIONING" \in fl THEN t[3] + t[4] ELSE 0)

\* lines 605-608: the test that selects the approximate line minimization
PickApprox(fl, imp, t) ==
    /\ "FORCE_EXACT_LINMIN" \notin fl
    /\ imp > 0
    /\ imp <= APPROX_LINMIN_IMPROVEMENT_THRESHOLD
    /\ T_exact(fl, t) > T_approx(fl, t) * APPROX_LINMIN_SLOWDOWN_GUESS

\* The values a read of variable name can give: its value, or, when it was
\* never assigned, anything.
ReadOf(name, value, any) == IF name \in inited THEN {value} ELSE any

\* lines 589-621: prev_E = E; the strategy for the next iteration.  time_AZ,
\* time_ZtW, time_ZS and time_ZtZ were set by the TIME_OPs of lines 376-391 of
\* this iteration and are read only here.
Controller ==
    /\ pc = "controller"
    /\ prev_E' = E
    /\ \E t_AZ \in TimeVals, t_ZtW \in TimeVals, t_ZS \in TimeVals, t_ZtZ \in TimeVals,
          t_KZ \in ReadOf("time_KZ", time_KZ, TimeVals),
          t_linmin \in ReadOf("time_linmin", time_linmin, TimeVals),
          imp \in ReadOf("linmin_improvement", linmin_improvement, ImprVals) :
         LET t == <<t_AZ, t_KZ, t_ZtW, t_ZS, t_ZtZ, t_linmin>>
         IN  /\ use_linmin' = IF PickApprox(flags, imp, t) THEN 0 ELSE 1
             /\ ctl' = [done |-> TRUE, imp |-> imp, times |-> t,
                        measured |-> {"time_KZ", "time_linmin", "linmin_improvement"}
                                        \subseteq inited]
    /\ pc' = "loopback"
    /\ UNCHANGED <<args, cg, lm, th, iteration, E, linmin_improvement, time_linmin, time_KZ,
                   inited, Work, i, Y, Uof, pendingY, constraintCalls, rejected>>

\* line 622: } while (++iteration < EIGENSOLVER_MAX_ITERATIONS); and the CHECK
\* of line 624 when the loop runs out.  Contents written in this iteration
\* become the previous iteration's.
LoopBack ==
    /\ pc = "loopback"
    /\ iteration < MaxIter
    /\ iteration' = iteration + 1
    /\ pc' = IF iteration + 1 < EIGENSOLVER_MAX_ITERATIONS THEN "loop" ELSE "fatal"
    /\ Work' = [s \in DOMAIN Work |-> [k \in 1..NP |-> Age(Work[s][k])]]
    /\ rejected' = FALSE
    /\ ctl' = NoCtl
    /\ UNCHANGED <<args, cg, lm, th, use_linmin, E, prev_E, linmin_improvement, time_linmin,
                   time_KZ, inited, i, Y, Uof, pendingY, constraintCalls>>

\* lines 629-634: U = 1/(Yt Y); eigensolver_get_eigenvals_aux; *num_iterations
Finish ==
    /\ pc = "finish"
    /\ Uof' = Y
    /\ pc' = "returned"
    /\ UNCHANGED <<args, cg, lm, th, iteration, use_linmin, E, prev_E, linmin_improvement,
                   time_linmin, time_KZ, inited, Work, i, Y, pendingY,
                   constraintCalls, rejected, ctl>>

Next ==
    \/ Setup \/ InitialConstraint \/ ForceApprox \/ Normalize \/ OperatorA
    \/ TraceE \/ ConvergenceTest \/ Gradient \/ Precondition \/ Direction
    \/ PRStep \/ Combine \/ Select \/ ApproxProbe \/ ApproxInvert \/ ApproxA
    \/ ApproxDecide \/ ExactA \/ ExactDerivs \/ CallLinmin \/ Rotate
    \/ Constraint \/ Controller \/ LoopBack \/ Finish

Spec == Init /\ [][Next]_vars

\* ------------------------------------------------- what each statement reads

\* The workspaces the statement group at pc reads before it writes them.
ReadSlots ==
    CASE pc = "trace" -> {Xs}
      [] pc = "gradient" -> {Gs}
      [] pc = "precondition" -> {Gs}
      [] pc = "direction" -> {Gs, Xs}
      [] pc = "pr" -> {Gs, PGs}
      [] pc = "combine" -> IF usingConjugateGradient THEN {Gs, Xs, Ds} ELSE {}
      [] pc = "approx_probe" -> {Ds, PGs}
      [] pc = "approx_decide" -> {Gs, Ds}
      [] pc = "exact_A" -> {Ds}
      [] pc = "exact_derivs" -> {Ds, Gs}
      [] pc = "rotate" -> {Ds}
      [] OTHER -> {}

\* The statement group at pc reads U: lines 389, 410, 425, 496, 540-550.
ReadsU ==
    \/ pc \in {"trace", "gradient", "approx_decide", "exact_derivs"}
    \/ pc = "precondition" /\ "PROJECT_PRECONDITIONING" \in flags

\* ----------------------------------------------------------------- claims

\* C1: wherever U is read, U is the inverse of Yt Y for the Y of that moment.
C1_UInvertsCurrentY == ReadsU => Uof = Y

\* C2: a workspace handed to A as scratch holds nothing that is read later in
\* the iteration: no statement reads a block that A was free to overwrite.
C2_ScratchNeverRead ==
    \A s \in ReadSlots : \A k \in 1..NP : Work[s][k] # "scratch"

\* |E - E_prev| < tolerance (|E| + |E_prev| + 1e-7)/2 at iteration > 0
ClaimedConvergence(it, e, pe) ==
    /\ it > 0
    /\ 2 * TolDen * EpsDen * Abs(e - pe) < TolNum * ((Abs(e) + Abs(pe)) * EpsDen + 1)

\* C3: the loop is left as converged exactly when iteration > 0 and
\* |E - E_prev| < tolerance (|E| + |E_prev| + 1e-7)/2.
C3_ConvergedExactlyWhen ==
    /\ pc = "finish" => ClaimedConvergence(iteration, E, prev_E)
    /\ pc = "gradient" => ~ClaimedConvergence(iteration, E, prev_E)

\* C5 as claimed: the constraint is called once before the first iteration and
\* after each line-minimization update, and every update of Y, the rescaling
\* included, is followed by a constraint call before A forms the next trace.
C5_ConstraintAfterEveryUpdate ==
    hasConstraint =>
        /\ pc = "loop" => constraintCalls = iteration + 1
        /\ pc = "controller" => pendingY = {}
        /\ pc = "operator" => pendingY = {}

\* C5 as amended: the constraint is called once before the first iteration and
\* right after each line-minimization update; when A is applied to Y to form
\* the trace, the only update of Y not yet followed by a constraint call is
\* the rescaling by 1/y_norm of that iteration.
C5_ConstraintAfterLinminUpdates ==
    hasConstraint =>
        /\ pc = "loop" => constraintCalls = iteration + 1
        /\ pc = "controller" => pendingY = {}
        /\ pc = "operator" => pendingY = {"rescale"}

C5_Witness ==
    hasConstraint /\ pc = "operator" /\ iteration = 2 /\ constraintCalls = 3

\* C6: with FORCE_APPROX_LINMIN every iteration enters line minimization with
\* the approximate strategy, and linmin runs only after the approximate step
\* was rejected in that iteration.
C6_ForceApproxAlwaysApprox ==
    "FORCE_APPROX_LINMIN" \in flags =>
        /\ pc = "select" => use_linmin = 0
        /\ pc \in {"exact_A", "exact_derivs", "linmin"} => rejected /\ use_linmin = 1

C6_Witness ==
    /\ flags = {"FORCE_APPROX_LINMIN", "FORCE_EXACT_LINMIN"}
    /\ pc = "linmin" /\ iteration = 1 /\ rejected

\* t_exact > 2.0 t_approx and 0 < improvement <= 0.05, FORCE_EXACT_LINMIN unset
ClaimedPick(fl, imp, t) ==
    LET extra == IF "PROJECT_PRECONDITIONING" \in fl THEN t[3] + t[4] ELSE 0
        t_exact == 2 * t[1] + t[2] + 4 * t[3] + 2 * t[4] + 2 * t[5] + t[6] + extra
        t_approx == 2 * t[1] + t[2] + 2 * t[3] + 2 * t[4] + 2 * t[5] + extra
    IN  "FORCE_EXACT_LINMIN" \notin fl /\ imp > 0 /\ 100 * imp <= 5 * 100
          /\ t_exact > 2 * t_approx

\* C7: the controller picks approximate iff FORCE_EXACT_LINMIN is unset, the
\* improvement the last exact line minimization reported is in (0, 0.05] and
\* t_exact > 2 t_approx, with the six times measured in this call.
C7_ControllerChoice ==
    pc = "loopback" =>
        /\ ctl.measured
        /\ use_linmin = 0 <=> ClaimedPick(flags, ctl.imp, ctl.times)

\* C10: where the approximate strategy forms dE from prev_G, prev_G holds the
\* gradient of this iteration; after the fused pass every scalar of prev_G is
\* the incoming G and every scalar of G the incoming G minus the old prev_G.
C10_PrevGIsCurrentGradient ==
    /\ pc = "approx_probe" => \A k \in 1..NP : Work[PGs][k] = "grad"
    /\ pc = "combine" /\ use_polak_ribiere =>
          \A k \in 1..NP : Work[PGs][k] = "grad" /\ Work[Gs][k] = "graddiff"

C10_Witness ==
    pc = "approx_probe" /\ nWork = 4 /\ iteration = 1

\* ------------------------------------- the loop and the direction update

\* the variables SpecIter leaves alone
idle == <<hasK, hasConstraint, use_linmin, linmin_improvement, time_linmin, time_KZ,
          inited, Work, i, Y, Uof, pendingY, constraintCalls, rejected, ctl, lm, th>>

\* gamma = 0.0
Zero == [num |-> 0, den |-> 1]

InitIter ==
    /\ nWork \in 2..MaxWork
    /\ flags \in SUBSET {"RESET_CG"}
    /\ hasK = FALSE /\ hasConstraint = FALSE
    /\ pc = "loop"
    /\ iteration = 0
    /\ use_linmin = 1
    /\ E = 0
    /\ prev_E = 0
    /\ linmin_improvement = 0 /\ time_linmin = 0 /\ time_KZ = 0
    /\ inited = {}
    /\ Work = [s \in 0..(nWork - 1) |-> Block("garbage")]
    /\ i = 0
    /\ Y = "Y0"
    /\ Uof = "none"
    /\ pendingY = {}
    /\ constraintCalls = 0
    /\ rejected = FALSE
    /\ ctl = NoCtl
    /\ lm = NoLm
    /\ th = NoTh
    \* line 307: prev_traceGtX = 0.0; lines 326-333: D zeroed, or D = X
    /\ cg = [prev_traceGtX |-> 0, traceGtX |-> 0, gamma_numerator |-> 0,
             gamma |-> Zero, D |-> IF usingConjugateGradient THEN "zero" ELSE "X"]

\* lines 370-397: the operator phase gives E; break on convergence
IterTrace ==
    /\ pc = "loop"
    /\ \E e \in EVals :
         /\ E' = e
         /\ pc' = IF Converged(iteration, e, prev_E) THEN "finish" ELSE "direction"
    /\ UNCHANGED <<nWork, flags, iteration, prev_E, cg, idle>>

\* GammaOf with the reset tested on iteration instead of iteration + 1
GammaResetOffByOne(ptgx, num, fl, it) ==
    IF "RESET_CG" \in fl /\ it % CG_RESET_ITERS = 0
    THEN Zero
    ELSE IF ptgx = 0 THEN Zero ELSE [num |-> num, den |-> ptgx]

\* lines 451-463: gamma = 0 when prev_traceGtX == 0.0, else
\* gamma_numerator / prev_traceGtX; then the periodic reset
GammaOf(ptgx, num, fl, it) ==
    IF "RESET_CG" \in fl /\ (it + 1) % CG_RESET_ITERS = 0
    THEN Zero
    ELSE IF ptgx = 0 THEN Zero ELSE [num |-> num, den |-> ptgx]

\* line 465: evectmatrix_aXpbY(gamma, D, 1.0, X), D = gamma D + X
DAfter(gamma) == IF gamma.num = 0 THEN "X" ELSE "gamma D + X"

\* lines 433-466: traceGtX; the numerator of gamma (Polak-Ribiere: tr of the
\* gradient difference with X; Fletcher-Reeves: traceGtX); gamma; D
IterDirection ==
    /\ pc = "direction"
    /\ \E tgx \in TgxVals, pr \in TgxVals :
         IF usingConjugateGradient
         THEN LET num == IF use_polak_ribiere THEN pr ELSE tgx
                  g == GammaOf(cg.prev_traceGtX, num, flags, iteration)
              IN  cg' = [cg EXCEPT !.traceGtX = tgx, !.gamma_numerator = num,
                                   !.gamma = g, !.D = DAfter(g)]
         ELSE cg' = [cg EXCEPT !.traceGtX = tgx]
    /\ pc' = "linmin"
    /\ UNCHANGED <<nWork, flags, iteration, E, prev_E, idle>>

\* lines 589-627: prev_traceGtX = traceGtX; prev_E = E; ++iteration and the cap
IterLoopBack ==
    /\ pc = "linmin"
    /\ iteration < CGIters
    /\ cg' = [cg EXCEPT !.prev_traceGtX = cg.traceGtX]
    /\ prev_E' = E
    /\ iteration' = iteration + 1
    /\ pc' = IF iteration + 1 < EIGENSOLVER_MAX_ITERATIONS THEN "loop" ELSE "fatal"
    /\ UNCHANGED <<nWork, flags, E, idle>>

\* lines 629-634
IterFinish ==
    /\ pc = "finish"
    /\ pc' = "returned"
    /\ UNCHANGED <<nWork, flags, iteration, E, prev_E, cg, idle>>

NextIter == IterTrace \/ IterDirection \/ IterLoopBack \/ IterFinish

SpecIter == InitIter /\ [][NextIter]_vars

\* C8: with nWork >= 3, D <- gamma D + X with gamma = 0 (D = X) on the first
\* iteration, whenever the previous tr(Gt X) is 0 and, with RESET_CG, whenever
\* (iteration+1) mod 70 = 0; otherwise gamma is the quotient of the numerator
\* (tr(Gt X) for Fletcher-Reeves) by the previous tr(Gt X), never a division
\* by zero.  With nWork = 2, D is X.
C8_GammaAndDirection ==
    pc = "linmin" /\ cg # NoCg =>
        IF nWork >= 3
        THEN LET zeroCase == \/ iteration = 0
                             \/ cg.prev_traceGtX = 0
                             \/ "RESET_CG" \in flags /\ (iteration + 1) % 70 = 0
             IN  /\ zeroCase => cg.gamma = Zero /\ cg.D = "X"
                 /\ ~zeroCase =>
                      /\ cg.gamma = [num |-> cg.gamma_numerator, den |-> cg.prev_traceGtX]
                      /\ cg.D = IF cg.gamma_numerator = 0 THEN "X" ELSE "gamma D + X"
                 /\ nWork = 3 => cg.gamma_numerator = cg.traceGtX
                 /\ cg.gamma.den # 0
        ELSE Ds = Xs /\ cg.D = "X"

C8_Witness ==
    /\ pc = "linmin" /\ cg # NoCg /\ nWork = 4 /\ "RESET_CG" \in flags
    /\ iteration = 139 /\ cg.prev_traceGtX = 2 /\ cg.gamma_numerator = 1
    /\ cg.gamma = Zero

\* ----------------------------------------------------------------- linmin

\* the variables SpecLinmin leaves alone
driver == <<nWork, flags, hasK, hasConstraint, pc, iteration, use_linmin, E, prev_E,
            linmin_improvement, time_linmin, time_KZ, inited, Work, i, Y, Uof,
            pendingY, constraintCalls, rejected, ctl, cg, th>>

\* 0.5 * a on the grid
Half(a) == IF a >= 0 THEN a \div 2 ELSE -((-a) \div 2)

MIN2(a, b) == IF a < b THEN a ELSE b
MAX2(a, b) == IF a > b THEN a ELSE b

\* a / sqrt(rad) on the grid, for a >= 0 and rad > 0
DivSqrt(a, rad) ==
    CHOOSE k \in 0..a : k * k * rad <= a * a /\ (k + 1) * (k + 1) * rad > a * a

\* d > tolerance * (fabs(y) + tolerance), with d, y in grid points
Beyond(d, y, t) == Scale * d > t * (Abs(y) + t)

\* func(&df, x, data): the value kept for x, or any value at a new point
EvalAt(x) == IF x \in DOMAIN lm.ftab THEN {lm.ftab[x]} ELSE [f : FVals, df : DFVals]

Remember(x, v) == IF x \in DOMAIN lm.ftab THEN lm.ftab ELSE lm.ftab @@ (x :> v)

\* lines 577-580: linmin(&improvement, 0, E, dE, dE > 0 ? -K_PI : K_PI, theta,
\* tolerance, trace_func, &tfd).  ftab holds the values func has returned so
\* far; lo and hi keep the interval of the call and updated records that the
\* Ridder loop has moved an end of the bracket (history, read by no action).
InitLinmin ==
    /\ nWork = 2 /\ flags = {} /\ hasK = FALSE /\ hasConstraint = FALSE
    /\ pc = "linmin"
    /\ iteration = 0
    /\ use_linmin = 1
    /\ E = 0
    /\ prev_E = 0
    /\ linmin_improvement = 0 /\ time_linmin = 0 /\ time_KZ = 0
    /\ inited = {}
    /\ Work = [s \in 0..(nWork - 1) |-> Block("garbage")]
    /\ i = 0
    /\ Y = "Y0"
    /\ Uof = "none"
    /\ pendingY = {}
    /\ constraintCalls = 0
    /\ rejected = FALSE
    /\ ctl = NoCtl
    /\ cg = NoCg
    /\ th = NoTh
    /\ \E f0 \in FVals, dE \in DFVals, theta \in (-(K_PI + 1))..(K_PI + 1), t \in TolUnits :
         lm = [pc |-> "entry", tolerance |-> t,
               xmin |-> 0, f_xmin |-> f0, df_xmin |-> dE,
               xmax |-> IF dE > 0 THEN -K_PI ELSE K_PI, f_xmax |-> 0, df_xmax |-> 0,
               x0 |-> theta, f_x0 |-> 0, df_x0 |-> 0,
               x |-> 0, f |-> 0, df |-> 0, dx |-> 0, s |-> 0,
               xmin2 |-> 0, f_xmin2 |-> 0, df_xmin2 |-> 0,
               x_prev |-> 0, f_xstart |-> 0, is_xstart |-> 0,
               improvement |-> [num |-> 0, den |-> 1],
               ftab |-> (0 :> [f |-> f0, df |-> dE]), updated |-> FALSE,
               lo |-> MIN2(0, IF dE > 0 THEN -K_PI ELSE K_PI),
               hi |-> MAX2(0, IF dE > 0 THEN -K_PI ELSE K_PI)]

\* lines 170-174: the two CHECKs on the initial guess; s
LmEntry ==
    /\ lm.pc = "entry"
    /\ LET s == IF lm.xmax > lm.xmin THEN 1 ELSE -1
       IN  IF /\ lm.df_xmin * (lm.x0 - lm.xmin) < 0
              /\ lm.x0 * s < lm.xmax * s
              /\ lm.x0 * s > lm.xmin * s
           THEN lm' = [lm EXCEPT !.s = s, !.pc = "pass"]
           ELSE lm' = [lm EXCEPT !.s = s, !.pc = "fatal"]
    /\ UNCHANGED driver

\* lines 180-182: xmin2 = xmin ...; dx = (x0 - xmin) * 2.0; x = xmin + dx
LmPass ==
    /\ lm.pc = "pass"
    /\ LET dx == (lm.x0 - lm.xmin) * 2
           x == lm.xmin + dx
       IN  lm' = [lm EXCEPT !.xmin2 = lm.xmin, !.f_xmin2 = lm.f_xmin,
                            !.df_xmin2 = lm.df_xmin, !.dx = dx, !.x = x,
                            !.pc = IF x * lm.s <= lm.xmax * lm.s THEN "probe" ELSE "pass_end"]
    /\ UNCHANGED driver

\* the probe of a pass whose step doubles when no sign change is found
LmProbeDoubling ==
    /\ lm.pc = "probe"
    /\ \E v \in EvalAt(lm.x) :
         IF v.df * (lm.x - lm.xmin) > 0
         THEN lm' = [lm EXCEPT !.f = v.f, !.df = v.df, !.ftab = Remember(lm.x, v),
                               !.pc = "pass_end"]
         ELSE LET x == lm.x + 2 * lm.dx
              IN  lm' = [lm EXCEPT !.f = v.f, !.df = v.df, !.ftab = Remember(lm.x, v),
                                   !.xmin2 = lm.x, !.f_xmin2 = v.f, !.df_xmin2 = v.df,
                                   !.x = x, !.dx = 2 * lm.dx,
                                   !.pc = IF x * lm.s <= lm.xmax * lm.s
                                          THEN "probe" ELSE "pass_end"]
    /\ UNCHANGED driver

\* lines 183-190 and the x += dx, x*s <= xmax*s of line 182
LmProbe ==
    /\ lm.pc = "probe"
    /\ \E v \in EvalAt(lm.x) :
         IF v.df * (lm.x - lm.xmin) > 0
         THEN lm' = [lm EXCEPT !.f = v.f, !.df = v.df, !.ftab = Remember(lm.x, v),
                               !.pc = "pass_end"]
         ELSE LET x == lm.x + lm.dx
              IN  lm' = [lm EXCEPT !.f = v.f, !.df = v.df, !.ftab = Remember(lm.x, v),
                                   !.xmin2 = lm.x, !.f_xmin2 = v.f, !.df_xmin2 = v.df,
                                   !.x = x,
                                   !.pc = IF x * lm.s <= lm.xmax * lm.s
                                          THEN "probe" ELSE "pass_end"]
    /\ UNCHANGED driver

\* lines 191-197: the bracket found, or x0 halved toward xmin and the test of
\* the do-while
LmPassEnd ==
    /\ lm.pc = "pass_end"
    /\ IF lm.x * lm.s <= lm.xmax * lm.s
       THEN lm' = [lm EXCEPT !.xmin = lm.xmin2, !.f_xmin = lm.f_xmin2,
                             !.df_xmin = lm.df_xmin2,
                             !.xmax = lm.x, !.f_xmax = lm.f, !.df_xmax = lm.df,
                             !.pc = "bracketed"]
       ELSE LET x0 == Half(lm.x0 + lm.xmin)
            IN  lm' = [lm EXCEPT !.x0 = x0,
                                 !.pc = IF Beyond(Abs(x0 - lm.xmin), x0, lm.tolerance)
                                        THEN "pass" ELSE "bracketed"]
    /\ UNCHANGED driver

\* lines 198-217: CHECK "failed to bracket minimum"; x0 moved inside the
\* bracket; the ends put in increasing order; is_xstart; x_prev
LmBracketed ==
    /\ lm.pc = "bracketed"
    /\ IF ~Beyond(Abs(lm.x0 - lm.xmin), lm.x0, lm.tolerance)
       THEN lm' = [lm EXCEPT !.pc = "fatal"]
       ELSE LET x0 == IF lm.x0 * lm.s <= lm.xmin * lm.s \/ lm.x0 * lm.s >= lm.xmax * lm.s
                      THEN Half(lm.xmin + lm.xmax) ELSE lm.x0
                swap == lm.xmin > lm.xmax
            IN  lm' = [lm EXCEPT
                     !.x0 = x0, !.x_prev = x0, !.is_xstart = 1,
                     !.x = IF swap THEN lm.xmin ELSE @,
                     !.f = IF swap THEN lm.f_xmin ELSE @,
                     !.df = IF swap THEN lm.df_xmin ELSE @,
                     !.xmin = IF swap THEN lm.xmax ELSE @,
                     !.f_xmin = IF swap THEN lm.f_xmax ELSE @,
                     !.df_xmin = IF swap THEN lm.df_xmax ELSE @,
                     !.xmax = IF swap THEN lm.xmin ELSE @,
                     !.f_xmax = IF swap THEN lm.f_xmin ELSE @,
                     !.df_xmax = IF swap THEN lm.df_xmin ELSE @,
                     !.pc = "ridder"]
    /\ UNCHANGED driver

\* lines 237-238: x = x0 + (x0 - xmin) * (df_xmin > df_xmax ? 1 : -1) *
\*                     df_x0 / sqrt(df_x0*df_x0 - df_xmin*df_xmax)
RidderX(x0, xmin, df_x0, df_xmin, df_xmax) ==
    LET a == (x0 - xmin) * (IF df_xmin > df_xmax THEN 1 ELSE -1) * df_x0
        q == DivSqrt(Abs(a), df_x0 * df_x0 - df_xmin * df_xmax)
    IN  IF a >= 0 THEN x0 + q ELSE x0 - q

\* lines 219-244: f_x0, df_x0 = func(x0); the three zero-derivative exits; x;
\* the exit on the tolerance.  With df_x0*df_x0 - df_xmin*df_xmax <= 0 the
\* square root or the quotient is not a number and no test of the loop can
\* succeed any more.
LmRidder ==
    /\ lm.pc = "ridder"
    /\ \E v \in EvalAt(lm.x0) :
         LET l1 == [lm EXCEPT !.f_x0 = v.f, !.df_x0 = v.df,
                              !.ftab = Remember(lm.x0, v),
                              !.f_xstart = IF lm.is_xstart = 1 THEN v.f ELSE @,
                              !.is_xstart = 0]
             rad == v.df * v.df - lm.df_xmin * lm.df_xmax
         IN  IF v.df = 0 THEN lm' = [l1 EXCEPT !.pc = "final"]
             ELSE IF lm.df_xmin = 0 THEN lm' = [l1 EXCEPT !.x0 = lm.xmin, !.pc = "final"]
             ELSE IF lm.df_xmax = 0 THEN lm' = [l1 EXCEPT !.x0 = lm.xmax, !.pc = "final"]
             ELSE IF rad <= 0 THEN lm' = [l1 EXCEPT !.pc = "nan"]
             ELSE LET x == RidderX(lm.x0, lm.xmin, v.df, lm.df_xmin, lm.df_xmax)
                  IN  IF Scale * MAX2(Abs(x - lm.x_prev),
                                      MIN2(Abs(x - lm.xmin), Abs(x - lm.xmax)))
                            < lm.tolerance * (Abs(x) + lm.tolerance)
                      THEN lm' = [l1 EXCEPT !.x = x, !.x0 = x, !.pc = "final"]
                      ELSE lm' = [l1 EXCEPT !.x = x, !.pc = "ridder_update"]
    /\ UNCHANGED driver

\* the lower end replaced by x whatever the derivatives are
NewBracketLowerEnd(l, f, df) == [l EXCEPT !.xmin = l.x, !.f_xmin = f, !.df_xmin = df]

\* lines 249-274: which end of the bracket x or x0 replaces
NewBracket(l, f, df) ==
    IF df * l.df_x0 > 0 \/ (df - l.df_x0) * (l.x - l.x0) < 0
    THEN IF l.x < l.x0
         THEN IF l.df_xmin * df > 0 \/ (l.df_xmin - df) * (l.xmin - l.x) < 0
              THEN [l EXCEPT !.xmin = l.x0, !.f_xmin = l.f_x0, !.df_xmin = l.df_x0]
              ELSE [l EXCEPT !.xmax = l.x, !.f_xmax = f, !.df_xmax = df]
         ELSE IF l.df_xmin * l.df_x0 > 0 \/ (l.df_xmin - l.df_x0) * (l.xmin - l.x0) < 0
              THEN [l EXCEPT !.xmin = l.x, !.f_xmin = f, !.df_xmin = df]
              ELSE [l EXCEPT !.xmax = l.x0, !.f_xmax = l.f_x0, !.df_xmax = l.df_x0]
    ELSE IF l.x < l.x0
         THEN [l EXCEPT !.xmin = l.x, !.f_xmin = f, !.df_xmin = df,
                        !.xmax = l.x0, !.f_xmax = l.f_x0, !.df_xmax = l.df_x0]
         ELSE [l EXCEPT !.xmin = l.x0, !.f_xmin = l.f_x0, !.df_xmin = l.df_x0,
                        !.xmax = l.x, !.f_xmax = f, !.df_xmax = df]

\* lines 246-277: f, df = func(x); the new bracket; x0 = 0.5 * (xmin + xmax);
\* x_prev = x
LmRidderUpdate ==
    /\ lm.pc = "ridder_update"
    /\ \E v \in EvalAt(lm.x) :
         LET l1 == NewBracket(lm, v.f, v.df)
         IN  lm' = [l1 EXCEPT !.f = v.f, !.df = v.df, !.ftab = Remember(lm.x, v),
                              !.x0 = Half(l1.xmin + l1.xmax), !.x_prev = lm.x,
                              !.updated = TRUE,
                              !.pc = "ridder"]
    /\ UNCHANGED driver

\* lines 280-290: f_x0 = func(NULL, x0); *improvement = (f_xstart - f_x0) * 2.0
\* / (fabs(f_xstart) + fabs(f_x0) + tolerance), as the quotient num/den
LmReturn ==
    /\ lm.pc = "final"
    /\ \E v \in EvalAt(lm.x0) :
         lm' = [lm EXCEPT !.f_x0 = v.f, !.ftab = Remember(lm.x0, v),
                          !.improvement =
                              [num |-> (lm.f_xstart - v.f) * 2 * Scale,
                               den |-> (Abs(lm.f_xstart) + Abs(v.f)) * Scale + lm.tolerance],
                          !.pc = "returned"]
    /\ UNCHANGED driver

NextLinmin ==
    \/ LmEntry \/ LmPass \/ LmProbe \/ LmPassEnd \/ LmBracketed
    \/ LmRidder \/ LmRidderUpdate \/ LmReturn

SpecLinmin == InitLinmin /\ [][NextLinmin]_vars

\* the code is sequential: a step that can be taken is taken
SpecLinminFair == SpecLinmin /\ WF_vars(NextLinmin)

\* the loop of lines 218-278 is running or has been left by a break
InRidder == lm.pc \in {"ridder", "ridder_update", "final", "returned"}

LinminEnded == lm.pc \in {"returned", "fatal"}

\* C9: whenever linmin returns without a fatal error the returned point lies
\* in the closed interval between the xmin and xmax it was called with, and
\* at every step of the Ridder phase xmin <= x0 <= xmax holds with the
\* derivative at the two ends of opposite signs or zero (so the square root
\* of line 238 is taken of a positive number).
C9_BracketKept ==
    /\ InRidder =>
         /\ lm.xmin <= lm.x0 /\ lm.x0 <= lm.xmax
         /\ lm.df_xmin * lm.df_xmax <= 0
         /\ lm.lo <= lm.xmin /\ lm.xmax <= lm.hi
    /\ lm.pc = "returned" => lm.lo <= lm.x0 /\ lm.x0 <= lm.hi
    /\ lm.pc # "nan"

\* linmin has returned after the Ridder loop moved an end of the bracket, both
\* ends now inside the interval of the call
C9_Witness ==
    /\ lm.pc = "returned" /\ lm.updated
    /\ lm.xmin # lm.lo /\ lm.xmax # lm.hi
    /\ lm.xmin < lm.x0 /\ lm.x0 < lm.xmax
    /\ lm.df_xmin < 0 /\ lm.df_xmax > 0

\* C4: every call ends, by a return or by a fatal error; here for the two
\* loops of linmin.
C4_LinminEnds == <>LinminEnded

\* with a tolerance above zero the Ridder loop is left
C4_EndsWithTolerance == (lm.tolerance > 0) => <>LinminEnded

\* a probe found no sign change and the pass goes on to its next probe
ProbedOn == lm.pc = "probe" /\ lm'.pc = "probe"

ThDEVals == {-4, -1, 1, 4}
ThD2EVals == {-1, 1, 2}

\* a quotient num/den of integers, den > 0, in units of theta
Q(n, d) == [num |-> n, den |-> d]

\* the points linmin can return for xmax of sign sg: strictly between 0 and xmax
ReturnVals(sg) == {Q(sg, 2), Q(2 * sg, 1)}

\* the variables SpecTheta leaves alone
still == <<nWork, hasK, hasConstraint, linmin_improvement, time_linmin, time_KZ,
           inited, Work, i, Y, Uof, pendingY, constraintCalls, rejected, ctl, cg, lm>>

Fabs(q) == Q(Abs(q.num), q.den)
Neg(q) == Q(-q.num, q.den)

\* lines 503 and 555: theta = -dE/d2E
Newton(dE, d2E) == IF d2E > 0 THEN Q(-dE, d2E) ELSE Q(dE, -d2E)

\* fabs(theta) >= K_PI
AtLeastPi(q) == Abs(q.num) * Scale >= K_PI * q.den

\* lines 560 and 570: theta = dE > 0 ? -fabs(prev_theta) : fabs(prev_theta)
Fallback(dE, prev) == IF dE > 0 THEN Neg(Fabs(prev)) ELSE Fabs(prev)

\* lines 555-571: the Newton step and the safeguards on it
Safeguarded(dE, d2E, prev) ==
    LET t1 == IF d2E < 0 THEN Fallback(dE, prev) ELSE Newton(dE, d2E)
    IN  IF AtLeastPi(t1) THEN Fallback(dE, prev) ELSE t1

\* lines 170-174 for xmin = 0 and xmax = dE > 0 ? -K_PI : K_PI: the two CHECKs
\* of linmin on its initial guess, s being -1 or 1 with the sign of xmax
GuessAccepted(dE, q) ==
    LET s == IF dE > 0 THEN -1 ELSE 1
    IN  /\ dE * q.num < 0
        /\ q.num * s * Scale < K_PI * q.den
        /\ q.num * s > 0

\* lines 305-309: use_linmin = 1, prev_E = 0.0, prev_theta = 0.5, theta not
\* yet assigned (it is written before it is read)
InitTheta ==
    /\ nWork = 2
    /\ flags \in SUBSET FlagNames
    /\ hasK = FALSE /\ hasConstraint = FALSE
    /\ pc = "loop"
    /\ iteration = 0
    /\ use_linmin = 1
    /\ E = 0
    /\ prev_E = 0
    /\ linmin_improvement = 0 /\ time_linmin = 0 /\ time_KZ = 0
    /\ inited = {}
    /\ Work = [s \in 0..(nWork - 1) |-> Block("garbage")]
    /\ i = 0
    /\ Y = "Y0"
    /\ Uof = "none"
    /\ pendingY = {}
    /\ constraintCalls = 0
    /\ rejected = FALSE
    /\ ctl = NoCtl
    /\ cg = NoCg
    /\ lm = NoLm
    /\ th = [theta |-> Q(0, 1), prev_theta |-> Q(1, 2), dE |-> 0, d2E |-> 0]

\* lines 373-397: FORCE_APPROX_LINMIN sets use_linmin = 0; the operator phase
\* gives E; break on convergence
ThetaTrace ==
    /\ pc = "loop"
    /\ use_linmin' = IF "FORCE_APPROX_LINMIN" \in flags THEN 0 ELSE use_linmin
    /\ \E e \in EVals :
         /\ E' = e
         /\ pc' = IF Converged(iteration, e, prev_E) THEN "finish" ELSE "linmin"
    /\ UNCHANGED <<flags, iteration, prev_E, th, still>>

\* lines 470-523: the approximate strategy: dE, d2E, theta = -dE/d2E; the step
\* is rejected (use_linmin = 1, the exact strategy follows in this iteration)
\* or taken
ThetaApprox ==
    /\ pc = "linmin"
    /\ use_linmin = 0
    /\ \E dE \in ThDEVals, d2E \in ThD2EVals :
         /\ th' = [th EXCEPT !.theta = Newton(dE, d2E), !.dE = dE, !.d2E = d2E]
         /\ IF Reject(dE, d2E, E, prev_E)
            THEN use_linmin' = 1 /\ pc' = "linmin"
            ELSE use_linmin' = 0 /\ pc' = "update"
    /\ UNCHANGED <<flags, iteration, E, prev_E, still>>

\* lines 524-575: the exact strategy up to the call of linmin: dE, d2E, theta
\* and the safeguards
ThetaExact ==
    /\ pc = "linmin"
    /\ use_linmin = 1
    /\ \E dE \in ThDEVals, d2E \in ThD2EVals :
         th' = [th EXCEPT !.theta = Safeguarded(dE, d2E, th.prev_theta),
                          !.dE = dE, !.d2E = d2E]
    /\ pc' = "call"
    /\ UNCHANGED <<flags, iteration, use_linmin, E, prev_E, still>>

\* lines 577-580 with 170-174: theta = linmin(..., 0, E, dE, dE > 0 ? -K_PI :
\* K_PI, theta, ...): a fatal error on a guess the CHECKs refuse, else a point
\* of the bracket
ThetaLinmin ==
    /\ pc = "call"
    /\ IF GuessAccepted(th.dE, th.theta)
       THEN /\ \E r \in ReturnVals(IF th.dE > 0 THEN -1 ELSE 1) :
                 th' = [th EXCEPT !.theta = r]
            /\ pc' = "update"
       ELSE /\ pc' = "fatal"
            /\ UNCHANGED th
    /\ UNCHANGED <<flags, iteration, use_linmin, E, prev_E, still>>

\* lines 589-627: prev_theta = theta; prev_E = E; the strategy for the next
\* iteration from the timings and the improvement; ++iteration and the cap
ThetaUpdate ==
    /\ pc = "update"
    /\ iteration < MaxIter
    /\ th' = [th EXCEPT !.prev_theta = th.theta]
    /\ prev_E' = E
    /\ \E imp \in ImprVals, t \in [1..6 -> TimeVals] :
         use_linmin' = IF PickApprox(flags, imp, t) THEN 0 ELSE 1
    /\ iteration' = iteration + 1
    /\ pc' = IF iteration + 1 < EIGENSOLVER_MAX_ITERATIONS THEN "loop" ELSE "fatal"
    /\ UNCHANGED <<flags, E, still>>

\* lines 629-634
ThetaFinish ==
    /\ pc = "finish"
    /\ pc' = "returned"
    /\ UNCHANGED <<flags, iteration, use_linmin, E, prev_E, th, still>>

NextTheta ==
    \/ ThetaTrace \/ ThetaApprox \/ ThetaExact \/ ThetaLinmin \/ ThetaUpdate
    \/ ThetaFinish

SpecTheta == InitTheta /\ [][NextTheta]_vars

\* C12: whenever the driver calls linmin with a nonzero finite dE, the initial
\* guess theta left by the safeguards passes linmin's two checks:
\* dE theta < 0 and 0 < |theta| < pi, after any earlier iterations.
C12_GuessAccepted ==
    pc = "call" /\ th.dE # 0 =>
        /\ th.dE * th.theta.num < 0
        /\ th.theta.num # 0
        /\ ~AtLeastPi(th.theta)

====
